---- MODULE Spec2Model ----
(***************************************************************************)
(* The ipv4-address type plugin of libyang                                 *)
(* (src/plugins_types/ipv4_address.c): store, compare, print, hash,        *)
(* duplicate and free of a value holding 4 address bytes and an optional   *)
(* zone string kept in the context dictionary.                             *)
(*                                                                         *)
(* Bytes are integers, strings are sequences of bytes.  A dictionary       *)
(* string is identified with its content: the dictionary keeps one copy    *)
(* per content, so while a string is held its pointer and its content      *)
(* determine each other.                                                   *)
(***************************************************************************)
EXTENDS Integers, Sequences, FiniteSets, Bags

VARIABLES storage, status, origin, paired, dict, nvals, last

vars == <<storage, status, origin, paired, dict, nvals, last>>

(***************************************************************************)
(* Bounds of the model.                                                    *)
(***************************************************************************)
\* number of struct lyd_value storages the caller works with
NumSlots == 2
\* longest zone suffix (bytes after the first '%' or after the 4 address
\* bytes) of an input
MaxZoneLen == 1

(***************************************************************************)
(* Bytes and C strings.                                                    *)
(***************************************************************************)
NUL == 0
PCT == 37
DOT == 46

\* the size of struct in_addr
ADDR_SIZE == 4

\* a null pointer, and the content of memory malloc returned and nobody wrote
NULL == <<-1>>
UNINIT == <<-2>>

isdigit(c) == c \in 48..57

\* isalnum of <ctype.h> in the "C" locale, for the ASCII bytes the inputs use
isalnum(c) == isdigit(c) \/ c \in 65..90 \/ c \in 97..122

\* index of the first b[i] = c with i <= n, 0 when there is none
FirstIdx(b, c, n) ==
    IF \E i \in 1..n : b[i] = c
    THEN CHOOSE i \in 1..n : b[i] = c /\ \A j \in 1..(i - 1) : b[j] # c
    ELSE 0

\* index of the last b[i] = c with i <= n, 0 when there is none
LastIdx(b, c, n) ==
    IF \E i \in 1..n : b[i] = c
    THEN CHOOSE i \in 1..n : b[i] = c /\ \A j \in (i + 1)..n : b[j] # c
    ELSE 0

\* strlen: the bytes of b before its first NUL; the memory a buffer occupies
\* is followed by a terminator
strlen(b) ==
    LET z == FirstIdx(b, NUL, Len(b))
    IN  IF z = 0 THEN Len(b) ELSE z - 1

\* the C string that starts at the first byte of b
CStr(b) == SubSeq(b, 1, strlen(b))

\* the memory from the 1-based position p of b on (pointer b + p - 1)
From(b, p) == SubSeq(b, p, Len(b))

\* strndup(s, n): at most n bytes of the C string s
strndup(b, n) == CStr(SubSeq(b, 1, n))

\* ly_strnchr(s, c, len): position of the first c among the first len bytes
\* of s, 0 for a null result
ly_strnchr(s, c, len) == FirstIdx(s, c, len)

(***************************************************************************)
(* The dictionary (struct ly_ctx's dict): a bag of strings, the number of  *)
(* copies of a string being its reference count.                           *)
(***************************************************************************)
refcount(d, s) == CopiesIn(s, d)

\* lydict_insert(ctx, value, len, &str_p) when it succeeds: a null value
\* gives a null string, len 0 stands for strlen(value)
lydict_insert(d, value, len) ==
    IF value = NULL
    THEN [dict |-> d, str |-> NULL]
    ELSE LET n == IF len = 0 THEN strlen(value) ELSE len
             s == SubSeq(value, 1, n)
         IN  [dict |-> d (+) SetToBag({s}), str |-> s]

\* lydict_insert_zc(ctx, value, &str_p) when it succeeds: the C string in
\* the buffer becomes (or is merged into) the dictionary's copy
lydict_insert_zc(d, value) ==
    LET s == CStr(value)
    IN  [dict |-> d (+) SetToBag({s}), str |-> s]

\* lydict_remove(ctx, value): one reference less; a null value, and a
\* string the dictionary does not hold, change nothing
lydict_remove(d, value) ==
    IF value = NULL \/ refcount(d, value) = 0
    THEN d
    ELSE d (-) SetToBag({value})

(***************************************************************************)
(* inet_pton(AF_INET) and inet_ntop(AF_INET).                              *)
(***************************************************************************)
\* the loop of inet_pton4: tmp holds the octets so far, its last element
\* being the one under construction; <<>> is the result 0 (not an address)
RECURSIVE pton4(_, _, _, _, _)
pton4(src, i, tmp, saw_digit, octets) ==
    IF i > Len(src)
    THEN IF octets < ADDR_SIZE THEN <<>> ELSE tmp
    ELSE LET ch == src[i]
             tp == Len(tmp)
         IN  IF isdigit(ch)
             THEN LET new == tmp[tp] * 10 + (ch - 48)
                  IN  IF (saw_digit /\ tmp[tp] = 0) \/ new > 255
                         \/ (~saw_digit /\ octets + 1 > ADDR_SIZE)
                      THEN <<>>
                      ELSE pton4(src, i + 1, [tmp EXCEPT ![tp] = new], TRUE,
                                 IF saw_digit THEN octets ELSE octets + 1)
             ELSE IF ch = DOT /\ saw_digit
                  THEN IF octets = ADDR_SIZE
                       THEN <<>>
                       ELSE pton4(src, i + 1, Append(tmp, 0), FALSE, octets)
                  ELSE <<>>

inet_pton(src) == pton4(src, 1, <<0>>, FALSE, 0)

\* decimal digits of n in 0..255, no leading zero
Dec(n) ==
    IF n < 10 THEN <<48 + n>>
    ELSE IF n < 100 THEN <<48 + (n \div 10), 48 + (n % 10)>>
    ELSE <<48 + (n \div 100), 48 + ((n \div 10) % 10), 48 + (n % 10)>>

inet_ntop(a) ==
    Dec(a[1]) \o <<DOT>> \o Dec(a[2]) \o <<DOT>> \o Dec(a[3]) \o <<DOT>> \o Dec(a[4])

(***************************************************************************)
(* struct lyd_value with its struct lyd_value_ipv4_address: ptr is 1 when  *)
(* it points to an allocated value structure, whose fields addr and zone   *)
(* are; with ptr 0 the two are placeholders.                               *)
(***************************************************************************)
ZeroStorage ==
    [_canonical |-> NULL, ptr |-> 0, realtype |-> "", addr |-> <<>>, zone |-> NULL]

ZeroAddr == <<0, 0, 0, 0>>

\* lyplg_type_free_ipv4_address(ctx, value).  A zone field nobody wrote holds
\* whatever the allocator left there: garbage stands for it.
BadFree_KeepZone(d, nv, sto, garbage) ==
    [dict |-> lydict_remove(d, sto._canonical),
     nvals |-> IF sto.ptr = 1 THEN nv - 1 ELSE nv,
     uninit |-> FALSE]

lyplg_type_free_ipv4_address(d, nv, sto, garbage) ==
    IF sto.ptr = 1
    THEN [dict |-> lydict_remove(lydict_remove(d, sto._canonical),
                                 IF sto.zone = UNINIT THEN garbage ELSE sto.zone),
          nvals |-> nv - 1,
          uninit |-> sto.zone = UNINIT]
    ELSE [dict |-> lydict_remove(d, sto._canonical), nvals |-> nv, uninit |-> FALSE]

(***************************************************************************)
(* ipv4address_str2ip(value, value_len, options, ctx, addr, zone, err).    *)
(* value is the memory at the pointer, of which the first value_len bytes  *)
(* are the value; addr0 and zone0 are the fields of the value structure    *)
(* before the call; fault = "zone" makes lydict_insert fail.  strndup is   *)
(* taken to succeed.                                                       *)
(***************************************************************************)
\* the result, with what the call handed on: text is the string given to
\* inet_pton, split the position of the '%' (0: none), zone_arg and zone_len
\* the arguments of the zone's lydict_insert
Str2ip(ret, err, addr, zone, d, value, text, zone_ptr, zone_arg, zone_len) ==
    [ret |-> ret, err |-> err, addr |-> addr, zone |-> zone, dict |-> d,
     value |-> value, text |-> text, split |-> zone_ptr, zone_arg |-> zone_arg,
     zone_len |-> zone_len]

\* from inet_pton on: addr_no_zone is the string to convert, value the
\* buffer as it is by then
BadConvert_NoRestore(value, dynamic, d, addr0, zone, zone_ptr, zone_len, zone_arg, addr_no_zone, a) ==
    IF a = <<>>
    THEN Str2ip("LY_EVALID", "address", addr0, zone, d, value, addr_no_zone,
                zone_ptr, zone_arg, zone_len)
    ELSE Str2ip("LY_SUCCESS", "", a, zone, d, value, addr_no_zone, zone_ptr, zone_arg,
                zone_len)

str2ip_convert(value, dynamic, d, addr0, zone, zone_ptr, zone_len, zone_arg, addr_no_zone, a) ==
    IF a = <<>>
    THEN Str2ip("LY_EVALID", "address", addr0, zone, d, value, addr_no_zone,
                zone_ptr, zone_arg, zone_len)
    ELSE Str2ip("LY_SUCCESS", "", a, zone, d,
                IF dynamic /\ zone_ptr # 0 THEN [value EXCEPT ![zone_ptr] = PCT] ELSE value,
                addr_no_zone, zone_ptr, zone_arg, zone_len)

\* there is a zone index at zone_ptr
BadZone_WritesAlways(value, value_len, dynamic, d, addr0, zone0, fault, zone_ptr, zone_len, ins) ==
    IF fault = "zone"
    THEN Str2ip("LY_EMEM", "zone", addr0, zone0, d, value, <<>>, zone_ptr, <<>>, zone_len)
    ELSE str2ip_convert([value EXCEPT ![zone_ptr] = NUL], dynamic, ins.dict, addr0,
                        ins.str, zone_ptr, zone_len, From(value, zone_ptr + 1),
                        CStr([value EXCEPT ![zone_ptr] = NUL]),
                        inet_pton(CStr([value EXCEPT ![zone_ptr] = NUL])))

str2ip_zone(value, value_len, dynamic, d, addr0, zone0, fault, zone_ptr, zone_len, ins) ==
    IF fault = "zone"
    THEN Str2ip("LY_EMEM", "zone", addr0, zone0, d, value, <<>>, zone_ptr, <<>>, zone_len)
    ELSE IF dynamic
    THEN str2ip_convert([value EXCEPT ![zone_ptr] = NUL], dynamic, ins.dict, addr0,
                        ins.str, zone_ptr, zone_len, From(value, zone_ptr + 1),
                        CStr([value EXCEPT ![zone_ptr] = NUL]),
                        inet_pton(CStr([value EXCEPT ![zone_ptr] = NUL])))
    ELSE str2ip_convert(value, dynamic, ins.dict, addr0, ins.str, zone_ptr, zone_len,
                        From(value, zone_ptr + 1), strndup(value, zone_ptr - 1),
                        inet_pton(strndup(value, zone_ptr - 1)))

\* no zone
str2ip_nozone(value, value_len, dynamic, d, addr0) ==
    IF dynamic
    THEN str2ip_convert(value, dynamic, d, addr0, NULL, 0, 0, <<>>, CStr(value),
                        inet_pton(CStr(value)))
    ELSE str2ip_convert(value, dynamic, d, addr0, NULL, 0, 0, <<>>,
                        strndup(value, value_len), inet_pton(strndup(value, value_len)))

BadSplit_ZoneFromPercent(value, value_len, dynamic, d, addr0, zone0, fault, zone_ptr) ==
    IF zone_ptr # 0
    THEN str2ip_zone(value, value_len, dynamic, d, addr0, zone0, fault, zone_ptr,
                     value_len - zone_ptr + 1,
                     lydict_insert(d, From(value, zone_ptr), value_len - zone_ptr + 1))
    ELSE str2ip_nozone(value, value_len, dynamic, d, addr0)

str2ip_split(value, value_len, dynamic, d, addr0, zone0, fault, zone_ptr) ==
    IF zone_ptr # 0
    THEN str2ip_zone(value, value_len, dynamic, d, addr0, zone0, fault, zone_ptr,
                     value_len - zone_ptr,
                     lydict_insert(d, From(value, zone_ptr + 1), value_len - zone_ptr))
    ELSE str2ip_nozone(value, value_len, dynamic, d, addr0)

ipv4address_str2ip(value, value_len, dynamic, d, addr0, zone0, fault) ==
    str2ip_split(value, value_len, dynamic, d, addr0, zone0, fault,
                 ly_strnchr(value, PCT, value_len))

(***************************************************************************)
(* lyplg_type_store_ipv4_address.  The two bodies give the state at the    *)
(* label cleanup: the return value, the error, the storage, the            *)
(* dictionary, the number of allocated value structures, whether options   *)
(* still holds LYPLG_TYPE_STORE_DYNAMIC, the input buffer and whether it   *)
(* was handed to lydict_insert_zc.  fault names the step that fails, when  *)
(* the call gets there: "hints", "length", "patterns" (the validation of   *)
(* the type), "malloc" (malloc or calloc of the value structure), "zone"   *)
(* and "canonical" (the dictionary insert of that string).                 *)
(***************************************************************************)
AtCleanup(ret, err, errarg, sto, d, nv, dynamic, value, zc, trace) ==
    [ret |-> ret, err |-> err, errarg |-> errarg, sto |-> sto, dict |-> d,
     nvals |-> nv, dynamic |-> dynamic, value |-> value, zc |-> zc,
     trace |-> trace]

NoTrace == [text |-> <<>>, split |-> 0, zone_arg |-> <<>>, zone_len |-> 0]

\* format == LY_VALUE_LYB, from the allocation of the value on
StoreLYB_alloc(d, nv, val, value, value_len, dynamic, fault) ==
    IF fault = "malloc"
    THEN AtCleanup("LY_EMEM", "malloc", <<>>, ZeroStorage, d, nv, dynamic, value, 0,
                   NoTrace)
    ELSE IF value_len > ADDR_SIZE
    THEN IF fault = "zone"
         THEN AtCleanup("LY_EMEM", "zone", <<>>, val, d, nv + 1, dynamic, value, 0,
                        NoTrace)
         ELSE AtCleanup("LY_SUCCESS", "", <<>>,
                        [val EXCEPT !.zone =
                            lydict_insert(d, From(value, ADDR_SIZE + 1),
                                          value_len - ADDR_SIZE).str],
                        lydict_insert(d, From(value, ADDR_SIZE + 1),
                                      value_len - ADDR_SIZE).dict,
                        nv + 1, dynamic, value, 0, NoTrace)
    ELSE AtCleanup("LY_SUCCESS", "", <<>>, [val EXCEPT !.zone = NULL], d, nv + 1,
                   dynamic, value, 0, NoTrace)

\* the position of the first byte from offset 4 on that is not
\* alphanumeric, value_len + 1 when there is none
BadFirstBad_Last(value, value_len) ==
    CHOOSE i \in (ADDR_SIZE + 1)..(value_len + 1) :
        /\ i <= value_len => ~isalnum(value[i])
        /\ \A j \in (i + 1)..value_len : isalnum(value[j])
        /\ i = value_len + 1 => \A j \in (ADDR_SIZE + 1)..value_len : isalnum(value[j])

FirstBadZoneByte(value, value_len) ==
    CHOOSE i \in (ADDR_SIZE + 1)..(value_len + 1) :
        /\ i <= value_len => ~isalnum(value[i])
        /\ \A j \in (ADDR_SIZE + 1)..(i - 1) : isalnum(value[j])

BadStoreLYB_Eager(d, nv, type, value, value_len, dynamic, fault, bad) ==
    IF bad <= value_len
    THEN AtCleanup("LY_EVALID", "zone character", <<value[bad]>>, ZeroStorage, d, nv,
                   dynamic, value, 0, NoTrace)
    ELSE StoreLYB_alloc(d (+) SetToBag({inet_ntop(SubSeq(value, 1, ADDR_SIZE))}), nv,
                        [_canonical |-> inet_ntop(SubSeq(value, 1, ADDR_SIZE)), ptr |-> 1,
                         realtype |-> type.name,
                         addr |-> SubSeq(value, 1, ADDR_SIZE), zone |-> UNINIT],
                        value, value_len, dynamic, fault)

StoreLYB_zone(d, nv, type, value, value_len, dynamic, fault, bad) ==
    IF bad <= value_len
    THEN AtCleanup("LY_EVALID", "zone character", <<value[bad]>>, ZeroStorage, d, nv,
                   dynamic, value, 0, NoTrace)
    ELSE StoreLYB_alloc(d, nv,
                        [_canonical |-> NULL, ptr |-> 1, realtype |-> type.name,
                         addr |-> SubSeq(value, 1, ADDR_SIZE), zone |-> UNINIT],
                        value, value_len, dynamic, fault)

\* format == LY_VALUE_LYB
StoreLYB(d, nv, type, value, value_len, dynamic, fault) ==
    IF value_len < ADDR_SIZE
    THEN AtCleanup("LY_EVALID", "size", <<value_len>>, ZeroStorage, d, nv, dynamic,
                   value, 0, NoTrace)
    ELSE StoreLYB_zone(d, nv, type, value, value_len, dynamic, fault,
                       FirstBadZoneByte(value, value_len))

\* any other format, from the canonical value on: r is the result of
\* ipv4address_str2ip, val the value structure and tr what r handed on
BadCanonical_KeepDynamic(nv, val, tr, value, value_len, dynamic, fault, r) ==
    IF r.ret # "LY_SUCCESS"
    THEN AtCleanup(r.ret, r.err, r.text, val, r.dict, nv + 1, dynamic, r.value, 0, tr)
    ELSE IF fault = "canonical"
    THEN AtCleanup("LY_EMEM", "canonical", <<>>, val, r.dict, nv + 1, dynamic, r.value,
                   IF dynamic THEN 1 ELSE 0, tr)
    ELSE AtCleanup("LY_SUCCESS", "", <<>>,
                   [val EXCEPT !._canonical = SubSeq(value, 1, value_len)],
                   r.dict (+) SetToBag({SubSeq(value, 1, value_len)}),
                   nv + 1, dynamic, r.value, IF dynamic THEN 1 ELSE 0, tr)

StoreText_canonical(nv, val, tr, value, value_len, dynamic, fault, r) ==
    IF r.ret # "LY_SUCCESS"
    THEN AtCleanup(r.ret, r.err, r.text, val, r.dict, nv + 1, dynamic, r.value, 0, tr)
    ELSE IF dynamic
    THEN IF fault = "canonical"
         THEN AtCleanup("LY_EMEM", "canonical", <<>>, val, r.dict, nv + 1, FALSE,
                        r.value, 1, tr)
         ELSE AtCleanup("LY_SUCCESS", "", <<>>,
                        [val EXCEPT !._canonical = lydict_insert_zc(r.dict, r.value).str],
                        lydict_insert_zc(r.dict, r.value).dict,
                        nv + 1, FALSE, r.value, 1, tr)
    ELSE IF fault = "canonical"
         THEN AtCleanup("LY_EMEM", "canonical", <<>>, val, r.dict, nv + 1, dynamic,
                        r.value, 0, tr)
         ELSE AtCleanup("LY_SUCCESS", "", <<>>,
                        [val EXCEPT !._canonical =
                            lydict_insert(r.dict, IF value_len # 0 THEN value ELSE <<>>,
                                          value_len).str],
                        lydict_insert(r.dict, IF value_len # 0 THEN value ELSE <<>>,
                                      value_len).dict,
                        nv + 1, dynamic, r.value, 0, tr)

StoreText_convert(nv, type, value, value_len, dynamic, fault, r) ==
    StoreText_canonical(nv,
                        [_canonical |-> NULL, ptr |-> 1, realtype |-> type.name,
                         addr |-> r.addr, zone |-> r.zone],
                        [text |-> r.text, split |-> r.split, zone_arg |-> r.zone_arg,
                         zone_len |-> r.zone_len],
                        value, value_len, dynamic, fault, r)

\* any other format: the string form
StoreText(d, nv, type, value, value_len, dynamic, fault) ==
    IF fault \in {"hints", "patterns"} \/ (fault = "length" /\ type.length)
    THEN AtCleanup("LY_EVALID", fault, <<>>, ZeroStorage, d, nv, dynamic, value, 0,
                   NoTrace)
    ELSE IF fault = "malloc"
    THEN AtCleanup("LY_EMEM", "malloc", <<>>, ZeroStorage, d, nv, dynamic, value, 0,
                   NoTrace)
    ELSE StoreText_convert(nv, type, value, value_len, dynamic, fault,
                           ipv4address_str2ip(value, value_len, dynamic, d, ZeroAddr,
                                              NULL, fault))

\* from the label cleanup on: the buffer is freed when options still holds
\* LYPLG_TYPE_STORE_DYNAMIC, the storage is freed when ret is an error
StoreFreed(c, fr) ==
    [ret |-> c.ret, err |-> c.err, errarg |-> c.errarg, sto |-> c.sto,
     dict |-> IF c.ret # "LY_SUCCESS" THEN fr.dict ELSE c.dict,
     nvals |-> IF c.ret # "LY_SUCCESS" THEN fr.nvals ELSE c.nvals,
     buf_freed |-> IF c.dynamic THEN 1 ELSE 0,
     buf_zc |-> c.zc,
     value |-> c.value,
     uninit |-> c.ret # "LY_SUCCESS" /\ fr.uninit,
     trace |-> c.trace]

StoreCleanup(c, garbage) ==
    StoreFreed(c, lyplg_type_free_ipv4_address(c.dict, c.nvals, c.sto, garbage))

lyplg_type_store_ipv4_address(d, nv, type, value, value_len, dynamic, format, fault, garbage) ==
    StoreCleanup(IF format = "LYB"
                 THEN StoreLYB(d, nv, type, value, value_len, dynamic, fault)
                 ELSE StoreText(d, nv, type, value, value_len, dynamic, fault),
                 garbage)

(***************************************************************************)
(* lyplg_type_compare_ipv4_address(val1, val2)                             *)
(***************************************************************************)
BadCompare_NoZone(val1, val2) ==
    IF val1.realtype # val2.realtype \/ val1.addr # val2.addr
    THEN "LY_ENOT"
    ELSE "LY_SUCCESS"

lyplg_type_compare_ipv4_address(val1, val2) ==
    IF val1.realtype # val2.realtype
    THEN "LY_ENOT"
    ELSE IF val1.addr # val2.addr \/ val1.zone # val2.zone
    THEN "LY_ENOT"
    ELSE "LY_SUCCESS"

(***************************************************************************)
(* lyplg_type_print_ipv4_address(ctx, value, format, NULL, &dynamic,       *)
(* &value_len): data is the memory returned (NULL on failure), dynamic and *)
(* len what the call wrote (-1: not written), sto the storage after the    *)
(* call.  fault: "malloc", "ntop" (inet_ntop returns NULL), "canonical"    *)
(* (lydict_insert_zc fails).                                               *)
(***************************************************************************)
Printed(data, dynamic, len, sto, d) ==
    [data |-> data, dynamic |-> dynamic, len |-> len, sto |-> sto, dict |-> d]

\* the canonical value is generated: ret is the string built in the
\* allocated memory
BadGenerate_Poisons(d, sto, fault, ret) ==
    IF fault \in {"malloc", "ntop", "canonical"}
    THEN Printed(NULL, -1, -1, [sto EXCEPT !._canonical = CStr(ret)], d)
    ELSE Printed(CStr(ret), 0, strlen(ret),
                 [sto EXCEPT !._canonical = lydict_insert_zc(d, ret).str],
                 lydict_insert_zc(d, ret).dict)

print_generate(d, sto, fault, ret) ==
    IF fault \in {"malloc", "ntop", "canonical"}
    THEN Printed(NULL, -1, -1, sto, d)
    ELSE Printed(CStr(ret), 0, strlen(ret),
                 [sto EXCEPT !._canonical = lydict_insert_zc(d, ret).str],
                 lydict_insert_zc(d, ret).dict)

BadPrint_Regenerates(d, sto, format, fault) ==
    IF format = "LYB"
    THEN IF sto.zone = NULL
         THEN Printed(sto.addr, 0, ADDR_SIZE, sto, d)
         ELSE IF fault = "malloc"
         THEN Printed(NULL, -1, -1, sto, d)
         ELSE Printed(sto.addr \o CStr(sto.zone), 1, ADDR_SIZE + strlen(sto.zone),
                      sto, d)
    ELSE print_generate(d, sto, fault,
                        inet_ntop(sto.addr) \o
                        (IF sto.zone # NULL THEN <<PCT>> \o CStr(sto.zone) ELSE <<>>))

BadPrint_Borrowed(d, sto, format, fault) ==
    IF format = "LYB"
    THEN IF sto.zone = NULL
         THEN Printed(sto.addr, 0, ADDR_SIZE, sto, d)
         ELSE IF fault = "malloc"
         THEN Printed(NULL, -1, -1, sto, d)
         ELSE Printed(sto.addr \o CStr(sto.zone), 0, ADDR_SIZE + strlen(sto.zone),
                      sto, d)
    ELSE IF sto._canonical = NULL
    THEN print_generate(d, sto, fault,
                        inet_ntop(sto.addr) \o
                        (IF sto.zone # NULL THEN <<PCT>> \o CStr(sto.zone) ELSE <<>>))
    ELSE Printed(sto._canonical, 0, strlen(sto._canonical), sto, d)

BadPrint_ZoneDropped(d, sto, format, fault) ==
    IF format = "LYB"
    THEN Printed(sto.addr, 0, ADDR_SIZE, sto, d)
    ELSE IF sto._canonical = NULL
    THEN print_generate(d, sto, fault, inet_ntop(sto.addr))
    ELSE Printed(sto._canonical, 0, strlen(sto._canonical), sto, d)

lyplg_type_print_ipv4_address(d, sto, format, fault) ==
    IF format = "LYB"
    THEN IF sto.zone = NULL
         THEN Printed(sto.addr, 0, ADDR_SIZE, sto, d)
         ELSE IF fault = "malloc"
         THEN Printed(NULL, -1, -1, sto, d)
         ELSE Printed(sto.addr \o CStr(sto.zone), 1, ADDR_SIZE + strlen(sto.zone),
                      sto, d)
    ELSE IF sto._canonical = NULL
    THEN print_generate(d, sto, fault,
                        inet_ntop(sto.addr) \o
                        (IF sto.zone # NULL /\ strlen(sto.zone) + 1 # 0
                         THEN <<PCT>> \o CStr(sto.zone)
                         ELSE <<>>))
    ELSE Printed(sto._canonical, 0, strlen(sto._canonical), sto, d)

(***************************************************************************)
(* lyplg_type_hash_ipv4_address(value, &dynamic, &key_len)                 *)
(***************************************************************************)
lyplg_type_hash_ipv4_address(d, sto, fault) ==
    lyplg_type_print_ipv4_address(d, sto, "LYB", fault)

(***************************************************************************)
(* lyplg_type_dup_ipv4_address(ctx, original, dup).  fault: "canonical"    *)
(* and "zone" (that lydict_insert fails; an insert of NULL cannot),        *)
(* "malloc".                                                               *)
(***************************************************************************)
ly_strlen(s) == IF s = NULL THEN 0 ELSE strlen(s)

Dupped(ret, err, dup, d, nv) ==
    [ret |-> ret, err |-> err, dup |-> dup, dict |-> d, nvals |-> nv]

\* after the canonical value was inserted: dup1 is dup with it, d1 the
\* dictionary
BadDup_KeepsCanonical(d1, nv, original, dup1, fault) ==
    IF fault = "malloc"
    THEN Dupped("LY_EMEM", "malloc", dup1, lydict_remove(d1, dup1._canonical), nv)
    ELSE IF fault = "zone" /\ original.zone # NULL
    THEN Dupped("LY_EMEM", "zone", dup1, d1, nv)
    ELSE Dupped("LY_SUCCESS", "",
                [dup1 EXCEPT !.ptr = 1, !.addr = original.addr,
                             !.zone = lydict_insert(d1, original.zone, 0).str,
                             !.realtype = original.realtype],
                lydict_insert(d1, original.zone, 0).dict, nv + 1)

dup_value(d1, nv, original, dup1, fault) ==
    IF fault = "malloc"
    THEN Dupped("LY_EMEM", "malloc", dup1, lydict_remove(d1, dup1._canonical), nv)
    ELSE IF fault = "zone" /\ original.zone # NULL
    THEN Dupped("LY_EMEM", "zone", dup1, lydict_remove(d1, dup1._canonical), nv)
    ELSE Dupped("LY_SUCCESS", "",
                [dup1 EXCEPT !.ptr = 1, !.addr = original.addr,
                             !.zone = lydict_insert(d1, original.zone, 0).str,
                             !.realtype = original.realtype],
                lydict_insert(d1, original.zone, 0).dict, nv + 1)

lyplg_type_dup_ipv4_address(d, nv, original, dup, fault) ==
    IF fault = "canonical" /\ original._canonical # NULL
    THEN Dupped("LY_EMEM", "canonical", dup, d, nv)
    ELSE dup_value(lydict_insert(d, original._canonical,
                                 ly_strlen(original._canonical)).dict,
                   nv, original,
                   [dup EXCEPT !._canonical =
                       lydict_insert(d, original._canonical,
                                     ly_strlen(original._canonical)).str],
                   fault)

(***************************************************************************)
(* The inputs of the caller.                                               *)
(***************************************************************************)
Slots == 1..NumSlots

\* struct lysc_type_str: its address is the realtype, length is whether a
\* length restriction is set
Types == {[name |-> "ipv4-address", length |-> FALSE],
          [name |-> "restricted", length |-> TRUE]}

\* '%' and 'a': a byte that is not alphanumeric and one that is
ZoneBytes == {PCT, 97}

SeqsUpTo(S, n) == UNION {[1..k -> S] : k \in 0..n}

ZoneSuffixes == SeqsUpTo(ZoneBytes, MaxZoneLen)

Addresses == {<<1, 2, 3, 4>>, <<10, 0, 0, 255>>}

\* dotted quads, and "1.2.3", "256.2.3.4", "01.2.3.4" which are none
AddrTexts ==
    {inet_ntop(a) : a \in Addresses} \cup
    {<<49, DOT, 50, DOT, 51>>,
     <<50, 53, 54, DOT, 50, DOT, 51, DOT, 52>>,
     <<48, 49, DOT, 50, DOT, 51, DOT, 52>>}

\* the string form: an address text, then nothing or '%' and a zone suffix
Texts == AddrTexts \cup {a \o <<PCT>> \o z : a \in AddrTexts, z \in ZoneSuffixes}

\* what follows the value in memory when the caller's buffer does not end
\* with it (the value is then not zero-terminated): nothing or "a"
Tails == {<<>>, <<97>>}

\* a call's value, value_len, LYPLG_TYPE_STORE_DYNAMIC and format; a buffer
\* handed over with LYPLG_TYPE_STORE_DYNAMIC is a zero-terminated string of
\* value_len bytes
TextInputs ==
    {[value |-> s \o tl, value_len |-> Len(s), dynamic |-> FALSE, format |-> "text",
      reprint |-> 0] : s \in Texts, tl \in Tails} \cup
    {[value |-> s, value_len |-> Len(s), dynamic |-> TRUE, format |-> "text",
      reprint |-> 0] : s \in Texts}

\* the address with each zone suffix, the empty and a 3-byte value, and an
\* address with "a!%"
LYBValues ==
    {a \o z : a \in Addresses, z \in ZoneSuffixes} \cup
    {<<>>, <<1, 2, 3>>, <<1, 2, 3, 4, 97, 33, PCT>>}

LYBInputs ==
    {[value |-> v, value_len |-> Len(v), dynamic |-> dyn, format |-> "LYB",
      reprint |-> 0] : v \in LYBValues, dyn \in BOOLEAN}

Inputs == TextInputs \cup LYBInputs

\* the steps of a call that can fail for a reason outside the plugin
StoreFaults(format) ==
    IF format = "LYB"
    THEN {"none", "malloc", "zone"}
    ELSE {"none", "hints", "length", "patterns", "malloc", "zone", "canonical"}
PrintFaults(format) ==
    IF format = "LYB" THEN {"none", "malloc"} ELSE {"none", "malloc", "ntop", "canonical"}
DupFaults == {"none", "canonical", "malloc", "zone"}

\* what an unwritten pointer field can hold: null, or the address of a
\* string the dictionary holds (anything else is a string it does not hold,
\* which lydict_remove leaves alone like null)
Garbage(d) == {NULL} \cup BagToSet(d)

(***************************************************************************)
(* The state: the storages, what the caller knows of each ("zero": zeroed, *)
(* "live": holds a value, "dead": freed or left by a failed call), the     *)
(* text each value was stored from (NULL: none) and whether that buffer    *)
(* was handed over, whether the value is the original or the copy of a     *)
(* successful duplicate call, the dictionary, the number of allocated      *)
(* value structures, and the call in progress with its arguments and       *)
(* results (op "none" between calls).                                      *)
(***************************************************************************)
NoLast ==
    [op |-> "none", slot |-> 0, slot2 |-> 0, format |-> "", ret |-> "", err |-> "",
     errarg |-> <<>>, data |-> NULL, len |-> -1, dynamic |-> -1,
     value |-> <<>>, value_len |-> 0, in_dynamic |-> FALSE, type |-> "",
     value_after |-> <<>>, buf_freed |-> 0, buf_zc |-> 0, uninit |-> FALSE,
     reprint |-> 0, trace |-> NoTrace, dict_before |-> EmptyBag, nvals_before |-> 0,
     sto_before |-> ZeroStorage, orig_before |-> ZeroStorage]

NoOrigin == [text |-> NULL, dynamic |-> FALSE]

Init ==
    /\ storage = [i \in Slots |-> ZeroStorage]
    /\ status = [i \in Slots |-> "zero"]
    /\ origin = [i \in Slots |-> NoOrigin]
    /\ paired = [i \in Slots |-> FALSE]
    /\ dict = EmptyBag
    /\ nvals = 0
    /\ last = NoLast

\* the strings a value holds
Refs(sto) == {sto._canonical, IF sto.ptr = 1 THEN sto.zone ELSE NULL} \ {NULL}

\* a live value points to a string the dictionary has let go of: whatever
\* is done with the value from here on reads freed memory
Dangling ==
    \E i \in Slots : status[i] = "live" /\ \E r \in Refs(storage[i]) : refcount(dict, r) = 0

Idle == last.op = "none" /\ ~Dangling

\* the bytes the last binary print returned, as the value of a store call
Reprints ==
    IF last.op = "print" /\ last.format = "LYB" /\ last.data # NULL /\ ~Dangling
    THEN {[value |-> last.data, value_len |-> last.len, dynamic |-> dyn,
           format |-> "LYB", reprint |-> last.slot] :
              dyn \in {FALSE} \cup (IF last.dynamic = 1 THEN {TRUE} ELSE {})}
    ELSE {}

Stored(i, in, type, r) ==
    /\ storage' = [storage EXCEPT ![i] = r.sto]
    /\ status' = [status EXCEPT ![i] =
                     IF r.ret = "LY_SUCCESS" THEN "live"
                     ELSE IF r.sto.ptr = 0 THEN "zero" ELSE "dead"]
    /\ origin' = [origin EXCEPT ![i] =
                     IF r.ret = "LY_SUCCESS" /\ in.format = "text"
                     THEN [text |-> SubSeq(in.value, 1, in.value_len),
                           dynamic |-> in.dynamic]
                     ELSE NoOrigin]
    /\ paired' = [paired EXCEPT ![i] = FALSE]
    /\ dict' = r.dict
    /\ nvals' = r.nvals
    /\ last' = [NoLast EXCEPT !.op = "store", !.slot = i, !.format = in.format,
                   !.ret = r.ret, !.err = r.err, !.errarg = r.errarg,
                   !.value = in.value, !.value_len = in.value_len,
                   !.in_dynamic = in.dynamic, !.type = type.name,
                   !.value_after = r.value,
                   !.buf_freed = r.buf_freed, !.buf_zc = r.buf_zc,
                   !.uninit = r.uninit, !.reprint = in.reprint, !.trace = r.trace,
                   !.dict_before = dict, !.nvals_before = nvals]

\* the store callback on a storage that holds no value, with an input of the
\* caller or with the bytes a binary print just returned
Store(i) ==
    /\ status[i] # "live"
    /\ \E in \in (IF Idle THEN Inputs ELSE {}) \cup Reprints :
       \E type \in Types, fault \in StoreFaults(in.format) :
       \E garbage \in IF in.format = "LYB" /\ fault = "zone" THEN Garbage(dict) ELSE {NULL} :
           Stored(i, in, type,
                  lyplg_type_store_ipv4_address(dict, nvals, type, in.value, in.value_len,
                                                in.dynamic, in.format, fault, garbage))

PrintedValue(op, i, format, r) ==
    /\ storage' = [storage EXCEPT ![i] = r.sto]
    /\ dict' = r.dict
    /\ last' = [NoLast EXCEPT !.op = op, !.slot = i, !.format = format,
                   !.data = r.data, !.len = r.len, !.dynamic = r.dynamic,
                   !.dict_before = dict, !.nvals_before = nvals,
                   !.sto_before = storage[i]]
    /\ UNCHANGED <<status, origin, paired, nvals>>

\* the print callback on a value
PrintValue(i) ==
    /\ Idle
    /\ status[i] = "live"
    /\ \E format \in {"LYB", "text"} :
       \E fault \in PrintFaults(format) :
           PrintedValue("print", i, format,
                        lyplg_type_print_ipv4_address(dict, storage[i], format, fault))

\* the hash callback on a value
Hash(i) ==
    /\ Idle
    /\ status[i] = "live"
    /\ \E fault \in PrintFaults("LYB") :
           PrintedValue("hash", i, "", lyplg_type_hash_ipv4_address(dict, storage[i], fault))

\* the compare callback on two values
Compare(i, j) ==
    /\ Idle
    /\ status[i] = "live" /\ status[j] = "live"
    /\ last' = [NoLast EXCEPT !.op = "compare", !.slot = i, !.slot2 = j,
                   !.ret = lyplg_type_compare_ipv4_address(storage[i], storage[j]),
                   !.dict_before = dict, !.nvals_before = nvals,
                   !.sto_before = storage[j], !.orig_before = storage[i]]
    /\ UNCHANGED <<storage, status, origin, paired, dict, nvals>>

Duplicated(i, j, r) ==
    /\ storage' = [storage EXCEPT ![j] = r.dup]
    /\ status' = [status EXCEPT ![j] =
                     IF r.ret = "LY_SUCCESS" THEN "live"
                     ELSE IF r.dup = storage[j] THEN status[j] ELSE "dead"]
    /\ origin' = [origin EXCEPT ![j] =
                     IF r.ret = "LY_SUCCESS" THEN origin[i] ELSE NoOrigin]
    /\ paired' = IF r.ret = "LY_SUCCESS"
                 THEN [paired EXCEPT ![i] = TRUE, ![j] = TRUE]
                 ELSE [paired EXCEPT ![j] = FALSE]
    /\ dict' = r.dict
    /\ nvals' = r.nvals
    /\ last' = [NoLast EXCEPT !.op = "dup", !.slot = i, !.slot2 = j,
                   !.ret = r.ret, !.err = r.err,
                   !.dict_before = dict, !.nvals_before = nvals,
                   !.sto_before = storage[j], !.orig_before = storage[i]]

\* the duplicate callback from a value to a storage that holds none
Dup(i, j) ==
    /\ Idle
    /\ status[i] = "live" /\ status[j] # "live"
    /\ \E fault \in DupFaults :
           Duplicated(i, j, lyplg_type_dup_ipv4_address(dict, nvals, storage[i],
                                                        storage[j], fault))

Freed(i, r) ==
    /\ dict' = r.dict
    /\ nvals' = r.nvals
    /\ last' = [NoLast EXCEPT !.op = "free", !.slot = i, !.uninit = r.uninit,
                   !.dict_before = dict, !.nvals_before = nvals,
                   !.sto_before = storage[i]]
    /\ status' = [status EXCEPT ![i] = IF status[i] = "live" THEN "dead" ELSE "zero"]
    /\ origin' = [origin EXCEPT ![i] = NoOrigin]
    /\ paired' = [paired EXCEPT ![i] = FALSE]
    /\ UNCHANGED storage

\* the free callback on a value or on a zeroed storage
Free(i) ==
    /\ Idle
    /\ status[i] \in {"live", "zero"}
    /\ Freed(i, lyplg_type_free_ipv4_address(dict, nvals, storage[i], NULL))

\* the caller takes the results of the call, releases each storage that a
\* free or a failed call left behind and puts a zeroed one in its place
Return ==
    /\ last.op # "none"
    /\ last' = NoLast
    /\ storage' = [i \in Slots |-> IF status[i] = "dead" THEN ZeroStorage ELSE storage[i]]
    /\ status' = [i \in Slots |-> IF status[i] = "dead" THEN "zero" ELSE status[i]]
    /\ UNCHANGED <<origin, paired, dict, nvals>>

Next ==
    \/ \E i \in Slots : Store(i)
    \/ \E i \in Slots : PrintValue(i)
    \/ \E i \in Slots : Hash(i)
    \/ \E i, j \in Slots : Compare(i, j)
    \/ \E i, j \in Slots : Dup(i, j)
    \/ \E i \in Slots : Free(i)
    \/ Return

Spec == Init /\ [][Next]_vars

(***************************************************************************)
(* The properties.  A call's arguments and results are in last, in the     *)
(* state the call leaves.                                                  *)
(***************************************************************************)
\* the value in storage i is the value in storage j
SameValue(i, j) == lyplg_type_compare_ipv4_address(storage[i], storage[j]) = "LY_SUCCESS"

\* the last call stored, in the same type, the bytes that the binary print
\* of the value in last.reprint returned
Restored ==
    /\ last.op = "store" /\ last.reprint # 0
    /\ last.type = storage[last.reprint].realtype

\* an allocation of the last call failed
AllocationFailed == last.err \in {"malloc", "zone", "canonical"}

\* a zone that is absent, or is not empty and alphanumeric
PlainZone(z) == z = NULL \/ (z # <<>> /\ \A k \in 1..Len(z) : isalnum(z[k]))

\* C1 as the specification states it: for every value, the bytes its binary
\* print returns are stored with the binary format successfully, and the
\* value this gives compares equal to the printed one.
C1_BinaryRoundTrip ==
    Restored => last.ret = "LY_SUCCESS" /\ SameValue(last.reprint, last.slot)

\* C1, amended: for every value whose zone is absent or is a non-empty
\* alphanumeric string, the bytes its binary print returns are stored with
\* the binary format successfully unless an allocation fails, and the value
\* this gives compares equal to the printed one.
C1_BinaryRoundTripPlainZone ==
    Restored /\ PlainZone(storage[last.reprint].zone) /\ ~AllocationFailed
        => last.ret = "LY_SUCCESS" /\ SameValue(last.reprint, last.slot)

C1_Witness ==
    /\ Restored
    /\ storage[last.reprint].zone = <<97>>
    /\ last.value = <<1, 2, 3, 4, 97>>
    /\ last.ret = "LY_SUCCESS"
    /\ SameValue(last.reprint, last.slot)

\* C2: the text print of a value that a successful text store made from the
\* string s, whether or not the buffer was handed over and whether or not s
\* holds a '%', returns s with its length, and never a buffer for the
\* caller to free.
C2_TextRoundTrip ==
    last.op = "print" /\ last.format = "text" /\ origin[last.slot].text # NULL
        => /\ last.data = origin[last.slot].text
           /\ last.len = Len(origin[last.slot].text)
           /\ last.dynamic = 0

C2_Witness ==
    /\ last.op = "print" /\ last.format = "text"
    /\ origin[last.slot].dynamic
    /\ origin[last.slot].text = inet_ntop(<<1, 2, 3, 4>>) \o <<PCT, 97>>
    /\ last.data = origin[last.slot].text

\* C3: when compare reports two values equal their hash keys are the same
\* bytes of the same length, and the hash key of a value is the bytes its
\* binary print returns.
C3_CompareHashConsistent ==
    last.op = "hash" /\ last.data # NULL
        => /\ \A j \in Slots :
                  status[j] = "live" /\ SameValue(last.slot, j)
                      => /\ lyplg_type_hash_ipv4_address(dict, storage[j], "none").data
                            = last.data
                         /\ lyplg_type_hash_ipv4_address(dict, storage[j], "none").len
                            = last.len
           /\ last.data
                  = lyplg_type_print_ipv4_address(dict, storage[last.slot], "LYB", "none").data
           /\ last.len
                  = lyplg_type_print_ipv4_address(dict, storage[last.slot], "LYB", "none").len

C3_Witness ==
    /\ last.op = "hash" /\ last.data # NULL
    /\ storage[last.slot].zone # NULL
    /\ \E j \in Slots \ {last.slot} :
           /\ status[j] = "live" /\ SameValue(last.slot, j)
           /\ lyplg_type_hash_ipv4_address(dict, storage[j], "none").data = last.data

\* C4: a store call that is handed the input buffer lets go of it once on
\* every way out, success or failure: it gives it to the dictionary's
\* zero-copy insert or frees it, never both and never neither.
C4_BufferConsumedOnce ==
    last.op = "store" /\ last.in_dynamic => last.buf_freed + last.buf_zc = 1

C4_Witness ==
    /\ last.op = "store" /\ last.in_dynamic
    /\ last.err = "canonical"
    /\ last.buf_zc = 1 /\ last.buf_freed = 0

\* C5: whenever a store call fails, the dictionary holds the references it
\* held before the call, the value structure of the call is freed, and the
\* cleanup releases no zone field that nothing wrote.
C5_StoreFailureCleanup ==
    last.op = "store" /\ last.ret # "LY_SUCCESS"
        => /\ dict = last.dict_before
           /\ nvals = last.nvals_before
           /\ ~last.uninit

\* C6: when a duplicate call fails, the dictionary's reference counts are
\* those before the call, no value structure stays allocated, the original
\* is unchanged and still live, and the destination got no value structure.
C6_DupFailureAtomic ==
    last.op = "dup" /\ last.ret # "LY_SUCCESS"
        => /\ dict = last.dict_before
           /\ nvals = last.nvals_before
           /\ storage[last.slot] = last.orig_before
           /\ status[last.slot] = "live"
           /\ status[last.slot2] # "live"
           /\ storage[last.slot2].ptr = last.sto_before.ptr

C6_Witness ==
    /\ last.op = "dup" /\ last.err = "zone"
    /\ last.orig_before._canonical # NULL
    /\ last.orig_before.zone = <<97>>
    /\ refcount(last.dict_before, last.orig_before._canonical) = 1
    /\ dict = last.dict_before

EndsWithPercent == FirstIdx(last.value, PCT, last.value_len) = last.value_len

\* C8: a text store of an input that ends with '%' gives a value whose zone
\* is the empty string, a text store of an input without '%' gives a value
\* with no zone, and the two values of an address with and without the
\* '%' at its end compare unequal.
C8_ZoneDistinction ==
    /\ last.op = "store" /\ last.format = "text" /\ last.ret = "LY_SUCCESS"
           /\ last.value_len > 0
           => /\ EndsWithPercent => storage[last.slot].zone = <<>>
              /\ FirstIdx(last.value, PCT, last.value_len) = 0
                     => storage[last.slot].zone = NULL
    /\ \A i, j \in Slots :
           /\ status[i] = "live" /\ status[j] = "live"
           /\ origin[i].text # NULL /\ origin[j].text # NULL
           /\ origin[i].text = origin[j].text \o <<PCT>>
           => ~SameValue(i, j)

\* the last call is a text store that got to ipv4address_str2ip
Split ==
    /\ last.op = "store" /\ last.format = "text"
    /\ last.err \notin {"hints", "length", "patterns", "malloc"}

\* the address text when the input is split at p (0: not split)
Before(p) == SubSeq(last.value, 1, IF p = 0 THEN last.value_len ELSE p - 1)

\* the rest of the input after p
After(p) == SubSeq(last.value, p + 1, last.value_len)

\* C9 as the specification states it: a text store splits the input at its
\* last '%': what is before it is the address text handed to inet_pton,
\* what is after it becomes the zone.
C9_SplitAtLastPercent ==
    Split =>
        /\ last.trace.split = LastIdx(last.value, PCT, last.value_len)
        /\ last.err # "zone"
               => last.trace.text = Before(LastIdx(last.value, PCT, last.value_len))
        /\ last.ret = "LY_SUCCESS" /\ last.trace.split # 0
               => storage[last.slot].zone = After(LastIdx(last.value, PCT, last.value_len))

\* C9, amended: a text store splits the input at its first '%': what is
\* before it is the address text handed to inet_pton, what is after it,
\* further '%' included, is handed with its length to the dictionary as the
\* zone, and is the zone of the value when it is not empty; an input
\* without '%' is the address text and gives no zone.
C9_SplitAtFirstPercent ==
    Split =>
        /\ last.trace.split = FirstIdx(last.value, PCT, last.value_len)
        /\ last.err # "zone"
               => /\ last.trace.text = Before(FirstIdx(last.value, PCT, last.value_len))
                  /\ last.trace.split # 0
                         => /\ last.trace.zone_len = Len(After(last.trace.split))
                            /\ SubSeq(last.trace.zone_arg, 1, last.trace.zone_len)
                                   = After(last.trace.split)
        /\ last.ret = "LY_SUCCESS"
               => storage[last.slot].zone =
                      IF last.trace.split = 0 THEN NULL
                      ELSE IF After(last.trace.split) # <<>> THEN After(last.trace.split)
                      ELSE storage[last.slot].zone

C9_Witness ==
    /\ Split /\ last.ret = "LY_SUCCESS"
    /\ SubSeq(last.value, 1, last.value_len) = inet_ntop(<<1, 2, 3, 4>>) \o <<PCT, PCT>>
    /\ last.trace.split = 8
    /\ last.trace.text = inet_ntop(<<1, 2, 3, 4>>)
    /\ storage[last.slot].zone = <<PCT>>

\* the last call is a binary store
BinaryStore == last.op = "store" /\ last.format = "LYB"

\* the input is 4 bytes or more and each byte from offset 4 on is
\* alphanumeric
BinaryValid ==
    /\ last.value_len >= ADDR_SIZE
    /\ \A k \in (ADDR_SIZE + 1)..last.value_len : isalnum(last.value[k])

\* what a binary store reports when it refuses the input, and what the
\* value is when it succeeds
BinaryOutcome ==
    /\ last.value_len < ADDR_SIZE
           => last.ret = "LY_EVALID" /\ last.err = "size"
    /\ last.value_len >= ADDR_SIZE /\ ~BinaryValid
           => /\ last.ret = "LY_EVALID" /\ last.err = "zone character"
              /\ \E k \in (ADDR_SIZE + 1)..last.value_len :
                     /\ ~isalnum(last.value[k])
                     /\ \A j \in (ADDR_SIZE + 1)..(k - 1) : isalnum(last.value[j])
                     /\ last.errarg = <<last.value[k]>>
    /\ last.ret = "LY_SUCCESS"
           => /\ storage[last.slot].addr = SubSeq(last.value, 1, ADDR_SIZE)
              /\ storage[last.slot].zone = NULL <=> last.value_len = ADDR_SIZE

\* C10 as the specification states it: a binary store succeeds exactly
\* when the input is 4 bytes or more and each byte from offset 4 on is
\* alphanumeric; a shorter input fails with the size error, another with
\* the zone character error for its first byte that is not alphanumeric;
\* the address of the value is the first 4 bytes and its zone is absent
\* exactly when the input is 4 bytes.
C10_BinaryAcceptance ==
    BinaryStore => (last.ret = "LY_SUCCESS" <=> BinaryValid) /\ BinaryOutcome

\* C10, amended: a binary store is refused as invalid exactly when the
\* input is shorter than 4 bytes or a byte from offset 4 on is not
\* alphanumeric, and otherwise succeeds unless an allocation fails; errors
\* and value as above.
C10_BinaryAcceptanceUnlessAllocation ==
    BinaryStore =>
        /\ last.ret # "LY_EVALID" <=> BinaryValid
        /\ ~AllocationFailed => (last.ret = "LY_SUCCESS" <=> BinaryValid)
        /\ AllocationFailed => last.ret = "LY_EMEM"
        /\ BinaryOutcome

C10_Witness ==
    /\ BinaryStore
    /\ last.value = <<1, 2, 3, 4, 97, 33, PCT>>
    /\ last.err = "zone character" /\ last.errarg = <<33>>

\* the last call is a binary print
BinaryPrint == last.op = "print" /\ last.format = "LYB"

\* the bytes, the length and the flag of a binary print of the value sto
BinaryLayout(sto) ==
    IF sto.zone = NULL
    THEN last.data = sto.addr /\ last.len = ADDR_SIZE /\ last.dynamic = 0
    ELSE /\ last.data = sto.addr \o sto.zone
         /\ last.len = ADDR_SIZE + Len(sto.zone)
         /\ last.dynamic = 1

\* C11 as the specification states it: the binary print of a value returns
\* its 4 address bytes, length 4, not to be freed, when it has no zone, and
\* otherwise an allocated buffer of the 4 address bytes and the zone bytes,
\* length 4 + the zone's, to be freed by the caller; the value is unchanged.
C11_BinaryPrintLayout ==
    BinaryPrint
        => /\ BinaryLayout(last.sto_before)
           /\ storage[last.slot] = last.sto_before
           /\ dict = last.dict_before

\* C11, amended: as above, unless the value has a zone and the allocation
\* of the buffer fails: the print then returns null and writes neither the
\* flag nor the length; the value is unchanged in each case.
C11_BinaryPrintLayoutUnlessAllocation ==
    BinaryPrint
        => /\ \/ BinaryLayout(last.sto_before)
              \/ /\ last.sto_before.zone # NULL
                 /\ last.data = NULL /\ last.len = -1 /\ last.dynamic = -1
           /\ last.sto_before.zone = NULL => last.data # NULL
           /\ storage[last.slot] = last.sto_before
           /\ dict = last.dict_before

C11_Witness ==
    /\ BinaryPrint
    /\ last.sto_before.zone = <<97>>
    /\ last.data = <<1, 2, 3, 4, 97>> /\ last.len = 5 /\ last.dynamic = 1

\* how many of the fields _canonical and zone of the value sto refer to s
Held(sto, s) ==
    (IF sto._canonical = s THEN 1 ELSE 0) + (IF sto.ptr = 1 /\ sto.zone = s THEN 1 ELSE 0)

\* the strings of the dictionary before or after the last call
Strings == BagToSet(dict) \cup BagToSet(last.dict_before)

\* C12: free of a value releases one reference to its canonical string when
\* it has one, one reference to its zone when it has one, and its value
\* structure, and nothing else; free of a zeroed storage changes no
\* reference count and frees nothing.
C12_FreeReleasesOwn ==
    last.op = "free"
        => /\ \A s \in Strings :
                  refcount(dict, s) = refcount(last.dict_before, s) - Held(last.sto_before, s)
           /\ nvals = last.nvals_before - last.sto_before.ptr
           /\ ~last.uninit
           /\ last.sto_before = ZeroStorage
                  => dict = last.dict_before /\ nvals = last.nvals_before

C12_Witness ==
    /\ last.op = "free"
    /\ last.sto_before._canonical # NULL
    /\ last.sto_before.zone = <<97>>
    /\ refcount(last.dict_before, <<97>>) = 2
    /\ refcount(dict, <<97>>) = 1
    /\ nvals = last.nvals_before - 1

\* C13: once the canonical string of a value is set, no print, hash, compare
\* or duplicate call changes it while the value lives, and none of print,
\* hash and compare inserts a string into the dictionary then.
C13_CanonicalWrittenOnce ==
    [][\A i \in Slots :
          /\ status[i] = "live" /\ status'[i] = "live"
          /\ storage[i]._canonical # NULL
          => /\ storage'[i]._canonical = storage[i]._canonical
             /\ last'.op \in {"print", "hash", "compare"} /\ last'.slot = i
                    => dict' = dict]_vars

C13_Witness ==
    /\ last.op = "print" /\ last.format = "text"
    /\ origin[last.slot].text = NULL
    /\ last.sto_before._canonical = inet_ntop(<<1, 2, 3, 4>>) \o <<PCT, 97>>
    /\ storage[last.slot]._canonical = last.sto_before._canonical
    /\ last.data = last.sto_before._canonical
    /\ dict = last.dict_before

\* the text is the string form of the value sto: the dotted quad of its
\* address, followed by '%' and its zone when it has one
Canon(sto, text) ==
    IF sto.zone = NULL
    THEN inet_pton(text) = sto.addr
    ELSE \E p \in 1..Len(text) :
             /\ text[p] = PCT
             /\ inet_pton(SubSeq(text, 1, p - 1)) = sto.addr
             /\ SubSeq(text, p + 1, Len(text)) = sto.zone

\* the last call is a text print of a value that had no canonical string
Generates ==
    last.op = "print" /\ last.format = "text" /\ last.sto_before._canonical = NULL

\* C14: when a text print fails to generate the canonical string, the
\* value is as before the call, its canonical string still unset, the
\* dictionary holds no new reference, and a text print of the value that
\* then succeeds returns its string form.
C14_RenderFailureHarmless ==
    Generates /\ last.data = NULL
        => /\ storage[last.slot] = last.sto_before
           /\ dict = last.dict_before
           /\ nvals = last.nvals_before
           /\ Canon(storage[last.slot],
                    lyplg_type_print_ipv4_address(dict, storage[last.slot], "text",
                                                  "none").data)

C14_Witness ==
    /\ Generates /\ last.data = NULL
    /\ storage[last.slot].zone = <<97>>
    /\ storage[last.slot]._canonical = NULL
    /\ lyplg_type_print_ipv4_address(dict, storage[last.slot], "text", "none").data
           = inet_ntop(<<1, 2, 3, 4>>) \o <<PCT, 97>>

\* what C15 says of the calls other than the text print of a value without
\* canonical string: a text store sets the canonical string to the input,
\* held by the dictionary, a binary store leaves it unset, and compare,
\* hash, binary print and duplicate leave it unset, in the copy too
EagerLazy ==
    /\ last.op = "store" /\ last.ret = "LY_SUCCESS"
           => storage[last.slot]._canonical =
                  IF last.format = "LYB" THEN NULL
                  ELSE SubSeq(last.value, 1, last.value_len)
    /\ last.op = "store" /\ last.ret = "LY_SUCCESS" /\ last.format = "text"
           => refcount(dict, storage[last.slot]._canonical) >= 1
    /\ (last.op = "hash" \/ BinaryPrint) /\ last.sto_before._canonical = NULL
           => storage[last.slot]._canonical = NULL
    /\ last.op = "compare"
           => storage[last.slot] = last.orig_before /\ storage[last.slot2] = last.sto_before
    /\ last.op = "dup" /\ last.orig_before._canonical = NULL
           => /\ storage[last.slot]._canonical = NULL
              /\ last.ret = "LY_SUCCESS" => storage[last.slot2]._canonical = NULL

\* C15 as the specification states it: after a text store the canonical
\* string is the input, after a binary store it is unset and stays so
\* through compare, hash, binary print and duplicate, until the first text
\* print, which sets it to the string form of the value.
C15_EagerLazyAsymmetry ==
    /\ EagerLazy
    /\ Generates
           => /\ storage[last.slot]._canonical # NULL
              /\ Canon(last.sto_before, storage[last.slot]._canonical)

\* C15, amended: as above, until the first text print that succeeds, which
\* sets it to the string form of the value; one that fails leaves it unset.
C15_EagerLazyUntilPrintSucceeds ==
    /\ EagerLazy
    /\ Generates
           => IF last.data = NULL
              THEN storage[last.slot]._canonical = NULL
              ELSE /\ storage[last.slot]._canonical = last.data
                   /\ Canon(last.sto_before, storage[last.slot]._canonical)

C15_Witness ==
    /\ Generates /\ last.data # NULL
    /\ paired[last.slot]
    /\ last.sto_before.zone = <<97>>
    /\ storage[last.slot]._canonical = inet_ntop(<<1, 2, 3, 4>>) \o <<PCT, 97>>

\* the number of fields of live values that refer to the string s
Holders(s) ==
    LET RECURSIVE Sum(_)
        Sum(n) == IF n = 0 THEN 0
                  ELSE Sum(n - 1) + (IF status[n] = "live" THEN Held(storage[n], s) ELSE 0)
    IN  Sum(NumSlots)

\* C16: after any sequence of calls the reference count of every string in
\* the dictionary is the number of canonical and zone fields of live
\* values that refer to it; with no live value the dictionary is empty.
C16_ReferencesBalanced ==
    /\ \A s \in BagToSet(dict) \cup UNION {Refs(storage[i]) : i \in Slots} :
           refcount(dict, s) = Holders(s)
    /\ (\A i \in Slots : status[i] # "live") => dict = EmptyBag

\* C17: a store call that is not handed the input buffer neither frees it
\* nor gives it to the dictionary nor writes to it, whatever the format and
\* the outcome, and the strings of the value it makes are held by the
\* dictionary.
C17_CallerBufferUntouched ==
    last.op = "store" /\ ~last.in_dynamic
        => /\ last.buf_freed = 0 /\ last.buf_zc = 0
           /\ last.value_after = last.value
           /\ last.ret = "LY_SUCCESS"
                  => \A r \in Refs(storage[last.slot]) : refcount(dict, r) >= 1

C17_Witness ==
    /\ last.op = "store" /\ ~last.in_dynamic /\ last.format = "text"
    /\ last.ret = "LY_SUCCESS"
    /\ last.trace.split = 8
    /\ last.value_after = last.value
    /\ storage[last.slot].zone = <<PCT>>
    /\ storage[last.slot]._canonical = SubSeq(last.value, 1, last.value_len)

====
